---- MODULE Spec2Model ----
(***************************************************************************)
(* Laptop price predictor: feature normalization rules, the training-time  *)
(* data transformation run, model evaluation and the serving endpoint.     *)
(*                                                                         *)
(* A Python str is a sequence of one-character strings, so that replace,   *)
(* split, join, substring tests and number parsing are computed the way    *)
(* the code computes them.  A number is an exact decimal m / 10^e.         *)
(***************************************************************************)
EXTENDS Integers, Sequences, FiniteSets, TLC

(* ------------------------------------------------------------------ *)
(* Python values                                                      *)
(* ------------------------------------------------------------------ *)

\* a str cell
Str(s) == [k |-> "str", s |-> s, m |-> 0, e |-> 0]

RECURSIVE NumNorm(_, _)
\* the decimal m / 10^e without trailing fractional zeros
NumNorm(m, e) == IF e > 0 /\ m % 10 = 0 THEN NumNorm(m \div 10, e - 1)
                 ELSE [k |-> "num", s |-> <<>>, m |-> m, e |-> e]

\* an int or float cell
Num(m, e) == NumNorm(m, e)

\* an exception raised while computing a cell
Raise(x) == [k |-> "raise", s |-> <<x>>, m |-> 0, e |-> 0]

Range(f) == {f[i] : i \in DOMAIN f}

(* ------------------------------------------------------------------ *)
(* Python str operations                                              *)
(* ------------------------------------------------------------------ *)

\* s[i:i+len(sub)] == sub
StartsAt(s, sub, i) == /\ i + Len(sub) - 1 <= Len(s)
                       /\ \A j \in 1..Len(sub) : s[i + j - 1] = sub[j]

\* sub in s
Contains(sub, s) == \E i \in 1..Len(s) : StartsAt(s, sub, i)

RECURSIVE StrRemove(_, _)
\* s.replace(sub, '')
StrRemove(s, sub) ==
    IF s = <<>> THEN <<>>
    ELSE IF StartsAt(s, sub, 1)
         THEN StrRemove(SubSeq(s, Len(sub) + 1, Len(s)), sub)
         ELSE <<Head(s)>> \o StrRemove(Tail(s), sub)

RECURSIVE SplitOn(_, _)
\* s.split(c) for a one-character separator c
SplitOn(s, c) ==
    IF \A i \in 1..Len(s) : s[i] # c THEN <<s>>
    ELSE LET i == CHOOSE i \in 1..Len(s) :
                      s[i] = c /\ \A j \in 1..(i - 1) : s[j] # c
         IN  <<SubSeq(s, 1, i - 1)>> \o SplitOn(SubSeq(s, i + 1, Len(s)), c)

\* s.split(): runs of whitespace separate the tokens, no empty token
SplitWs(s) == SelectSeq(SplitOn(s, " "), LAMBDA t : t # <<>>)

RECURSIVE Join(_, _)
\* sep.join(ts)
Join(ts, sep) == IF ts = <<>> THEN <<>>
                 ELSE IF Len(ts) = 1 THEN ts[1]
                 ELSE ts[1] \o sep \o Join(Tail(ts), sep)

\* ts[0:3]
FirstThree(ts) == SubSeq(ts, 1, IF Len(ts) < 3 THEN Len(ts) ELSE 3)

RECURSIVE Strip(_)
\* s.strip(), as int() and float() do to their argument
Strip(s) == IF s = <<>> THEN <<>>
            ELSE IF Head(s) = " " THEN Strip(Tail(s))
            ELSE IF s[Len(s)] = " " THEN Strip(SubSeq(s, 1, Len(s) - 1))
            ELSE s

Digits == {"0", "1", "2", "3", "4", "5", "6", "7", "8", "9"}

DigitVal(c) == CASE c = "0" -> 0 [] c = "1" -> 1 [] c = "2" -> 2 [] c = "3" -> 3
                 [] c = "4" -> 4 [] c = "5" -> 5 [] c = "6" -> 6 [] c = "7" -> 7
                 [] c = "8" -> 8 [] c = "9" -> 9

RECURSIVE DigitsVal(_)
\* the value of a run of digits
DigitsVal(s) == IF s = <<>> THEN 0
                ELSE 10 * DigitsVal(SubSeq(s, 1, Len(s) - 1)) + DigitVal(s[Len(s)])

\* int(s) succeeds
IsIntText(s) == LET t == Strip(s)
                IN  t # <<>> /\ \A i \in 1..Len(t) : t[i] \in Digits

\* float(s) succeeds: digits with at most one decimal point
IsFloatText(s) ==
    LET t == Strip(s)
    IN  /\ \E i \in 1..Len(t) : t[i] \in Digits
        /\ \A i \in 1..Len(t) : t[i] \in Digits \cup {"."}
        /\ Cardinality({i \in 1..Len(t) : t[i] = "."}) <= 1

\* int(s)
PyInt(s) == IF IsIntText(s) THEN Num(DigitsVal(Strip(s)), 0) ELSE Raise("ValueError")

\* float(s)
PyFloat(s) ==
    IF ~IsFloatText(s) THEN Raise("ValueError")
    ELSE LET t == Strip(s)
             d == SelectSeq(t, LAMBDA c : c \in Digits)
             p == IF \E i \in 1..Len(t) : t[i] = "."
                  THEN Len(t) - (CHOOSE i \in 1..Len(t) : t[i] = ".")
                  ELSE 0
         IN  Num(DigitsVal(d), p)

\* the end of the run of digits that starts at s[i] (i - 1 when there is none)
RunEnd(s, i) == CHOOSE k \in (i - 1)..Len(s) :
                    /\ \A j \in i..k : s[j] \in Digits
                    /\ (k = Len(s) \/ s[k + 1] \notin Digits)

\* re.search(r'(\d+\.?\d*)', part): the matched text, <<>> when no match
ReSearchNumber(part) ==
    IF \A i \in 1..Len(part) : part[i] \notin Digits THEN <<>>
    ELSE LET i == CHOOSE i \in 1..Len(part) :
                      part[i] \in Digits /\ \A j \in 1..(i - 1) : part[j] \notin Digits
             j == RunEnd(part, i)
             k == IF j < Len(part) /\ part[j + 1] = "." THEN RunEnd(part, j + 2) ELSE j
         IN  SubSeq(part, i, k)

\* x * 1000
Times1000(x) == Num(x.m * 1000, x.e)

(* ------------------------------------------------------------------ *)
(* DataFrame: ordered column names and rows (column name -> cell)     *)
(* ------------------------------------------------------------------ *)

HasCol(df, c) == \E i \in 1..Len(df.cols) : df.cols[i] = c

NRows(df) == Len(df.rows)

\* df[c] = vals: an existing column keeps its position, a new one is appended
SetCol(df, c, vals) ==
    LET cs == IF HasCol(df, c) THEN df.cols ELSE Append(df.cols, c)
    IN  [cols |-> cs,
         rows |-> [i \in 1..NRows(df) |->
                     [x \in Range(cs) |-> IF x = c THEN vals[i] ELSE df.rows[i][x]]]]

\* df.drop(columns=names), every name being a column
DropCols(df, names) ==
    [cols |-> SelectSeq(df.cols, LAMBDA c : c \notin names),
     rows |-> [i \in 1..NRows(df) |->
                 [x \in Range(df.cols) \ names |-> df.rows[i][x]]]]

\* the exception of the first cell that raised, "" when none did
FirstRaise(vals) ==
    IF \A i \in DOMAIN vals : vals[i].k # "raise" THEN ""
    ELSE LET i == CHOOSE i \in DOMAIN vals :
                      vals[i].k = "raise" /\ \A j \in 1..(i - 1) : vals[j].k # "raise"
         IN  vals[i].s[1]

\* a call that returned ret and left its argument as arg
Ok(arg, ret) == [exc |-> "", arg |-> arg, ret |-> ret]

\* a call that raised x and left its argument as arg
Fail(x, arg) == [exc |-> x, arg |-> arg, ret |-> arg]

\* the texts of the str cells of column c
Texts(df, c) ==
    IF HasCol(df, c)
    THEN {df.rows[i][c].s : i \in {j \in 1..NRows(df) : df.rows[j][c].k = "str"}}
    ELSE {}

\* df[c].apply(f), f given on the texts of the column; a non-str cell raises onOther
Apply(df, c, onOther, f) ==
    IF ~HasCol(df, c) THEN [exc |-> "KeyError", vals |-> <<>>]
    ELSE LET vals == [i \in 1..NRows(df) |->
                        IF df.rows[i][c].k = "str" THEN f[df.rows[i][c].s]
                        ELSE Raise(onOther)]
         IN  [exc |-> FirstRaise(vals), vals |-> vals]

\* df[c].str.replace(tok, ''): .str needs a column of str
StrReplace(df, c, tok) ==
    IF ~HasCol(df, c) THEN [exc |-> "KeyError", vals |-> <<>>]
    ELSE IF \E i \in 1..NRows(df) : df.rows[i][c].k # "str"
         THEN [exc |-> "AttributeError", vals |-> <<>>]
    ELSE [exc |-> "", vals |-> [i \in 1..NRows(df) |-> Str(StrRemove(df.rows[i][c].s, tok))]]

\* series.astype(int) of a series of str
AsTypeInt(r) ==
    IF r.exc # "" THEN r
    ELSE LET vals == [i \in DOMAIN r.vals |-> PyInt(r.vals[i].s)]
         IN  [exc |-> FirstRaise(vals), vals |-> vals]

\* series.astype(float) of a series of str
AsTypeFloat(r) ==
    IF r.exc # "" THEN r
    ELSE LET vals == [i \in DOMAIN r.vals |-> PyFloat(r.vals[i].s)]
         IN  [exc |-> FirstRaise(vals), vals |-> vals]

\* df.drop(columns=names): KeyError when a name is no column
Drop(df, names) == IF \E c \in names : ~HasCol(df, c) THEN Fail("KeyError", df)
                   ELSE Ok(df, DropCols(df, names))

(* ------------------------------------------------------------------ *)
(* String literals of the rules                                       *)
(* ------------------------------------------------------------------ *)

tok_GB == <<"G", "B">>
tok_kg == <<"k", "g">>
tok_TB == <<"T", "B">>
tok_SSD == <<"S", "S", "D">>
tok_HDD == <<"H", "D", "D">>
tok_Touchscreen == <<"T", "o", "u", "c", "h", "s", "c", "r", "e", "e", "n">>
tok_IPS == <<"I", "P", "S">>
tok_Windows == <<"W", "i", "n", "d", "o", "w", "s">>
lbl_macOS == <<"m", "a", "c", "O", "S">>
lbl_MacOSX == <<"M", "a", "c", " ", "O", "S", " ", "X">>
lbl_mac == <<"m", "a", "c">>
lbl_windows == <<"w", "i", "n", "d", "o", "w", "s">>
lbl_other == <<"o", "t", "h", "e", "r">>
lbl_i7 == <<"I", "n", "t", "e", "l", " ", "C", "o", "r", "e", " ", "i", "7">>
lbl_i5 == <<"I", "n", "t", "e", "l", " ", "C", "o", "r", "e", " ", "i", "5">>
lbl_i3 == <<"I", "n", "t", "e", "l", " ", "C", "o", "r", "e", " ", "i", "3">>
lbl_Intel == <<"I", "n", "t", "e", "l">>
lbl_OtherIntel == <<"O", "t", "h", "e", "r", " ", "I", "n", "t", "e", "l", " ",
                    "P", "r", "o", "c", "e", "s", "s", "o", "r">>
lbl_AMD == <<"A", "M", "D", " ", "P", "r", "o", "c", "e", "s", "s", "o", "r">>

(* ------------------------------------------------------------------ *)
(* DataTransformation: the normalization rules                        *)
(* ------------------------------------------------------------------ *)

\* clean_data that leaves Ram as it is
clean_data_keep_ram(df) ==
    LET w == AsTypeFloat(StrReplace(df, "Weight", tok_kg))
    IN  IF w.exc # "" THEN Fail(w.exc, df)
        ELSE LET d2 == SetCol(df, "Weight", w.vals) IN Ok(d2, d2)

\* Ram and Weight lose their unit and become numbers, in place
clean_data(df) ==
    LET ram == AsTypeInt(StrReplace(df, "Ram", tok_GB))
    IN  IF ram.exc # "" THEN Fail(ram.exc, df)
        ELSE LET d1 == SetCol(df, "Ram", ram.vals)
                 w  == AsTypeFloat(StrReplace(d1, "Weight", tok_kg))
             IN  IF w.exc # "" THEN Fail(w.exc, d1)
                 ELSE LET d2 == SetCol(d1, "Weight", w.vals) IN Ok(d2, d2)

\* lambda x: 1 if tok in x else 0
HasToken(tok, x) == IF Contains(tok, x) THEN Num(1, 0) ELSE Num(0, 0)

process_screen_resolution(df) ==
    LET t == Apply(df, "ScreenResolution", "TypeError",
                   [u \in Texts(df, "ScreenResolution") |-> HasToken(tok_Touchscreen, u)])
    IN  IF t.exc # "" THEN Fail(t.exc, df)
        ELSE LET d1 == SetCol(df, "Touchscreen", t.vals)
                 p  == Apply(d1, "ScreenResolution", "TypeError",
                   [u \in Texts(d1, "ScreenResolution") |-> HasToken(tok_IPS, u)])
                 d2 == SetCol(d1, "IPS", p.vals)
                 r  == Drop(d2, {"ScreenResolution", "Inches"})
             IN  IF r.exc # "" THEN Fail(r.exc, d2) ELSE Ok(d2, r.ret)

\* lambda x: ' '.join(x.split()[0:3])
cpu_label(x) == Str(Join(FirstThree(SplitWs(x)), <<" ">>))

\* categorize_cpu testing the first token before the exact labels
categorize_cpu_first_token(text) ==
    IF SplitWs(text) = <<>> THEN Raise("IndexError")
    ELSE IF SplitWs(text)[1] = lbl_Intel THEN Str(lbl_OtherIntel)
    ELSE Str(lbl_AMD)

categorize_cpu(text) ==
    IF text \in {lbl_i7, lbl_i5, lbl_i3} THEN Str(text)
    ELSE IF SplitWs(text) = <<>> THEN Raise("IndexError")
    ELSE IF SplitWs(text)[1] = lbl_Intel THEN Str(lbl_OtherIntel)
    ELSE Str(lbl_AMD)

process_cpu(df) ==
    LET a == Apply(df, "Cpu", "AttributeError", [u \in Texts(df, "Cpu") |-> cpu_label(u)])
    IN  IF a.exc # "" THEN Fail(a.exc, df)
        ELSE LET d1 == SetCol(df, "cpu_name", a.vals)
                 b  == Apply(d1, "cpu_name", "AttributeError",
                             [u \in Texts(d1, "cpu_name") |-> categorize_cpu(u)])
             IN  IF b.exc # "" THEN Fail(b.exc, d1)
                 ELSE LET d2 == SetCol(d1, "cpu_name", b.vals)
                          r  == Drop(d2, {"Cpu"})
                      IN  Ok(d2, r.ret)

RECURSIVE storage_scan(_, _)
\* the for loop of extract_storage over the parts
storage_scan(parts, storage_type) ==
    IF parts = <<>> THEN Num(0, 0)
    ELSE IF Contains(storage_type, Head(parts))
         THEN LET g    == ReSearchNumber(Head(parts))
                  size == IF g # <<>> THEN PyFloat(g) ELSE Num(0, 0)
              IN  IF Contains(tok_TB, Head(parts)) THEN Times1000(size) ELSE size
         ELSE storage_scan(Tail(parts), storage_type)

\* extract_storage looking at the first part only
extract_storage_first_part(mem_str, storage_type) ==
    storage_scan(<<Head(SplitOn(mem_str, "+"))>>, storage_type)

extract_storage(mem_str, storage_type) == storage_scan(SplitOn(mem_str, "+"), storage_type)

process_memory(df) ==
    LET a == Apply(df, "Memory", "AttributeError",
                   [u \in Texts(df, "Memory") |-> extract_storage(u, tok_SSD)])
    IN  IF a.exc # "" THEN Fail(a.exc, df)
        ELSE LET d1 == SetCol(df, "SSD", a.vals)
                 b  == Apply(d1, "Memory", "AttributeError",
                             [u \in Texts(d1, "Memory") |-> extract_storage(u, tok_HDD)])
                 d2 == SetCol(d1, "HDD", b.vals)
                 r  == Drop(d2, {"Memory"})
             IN  Ok(d2, r.ret)

\* lambda x: x.split()[0]
gpu_first_token(x) == IF SplitWs(x) = <<>> THEN Raise("IndexError") ELSE Str(SplitWs(x)[1])

process_gpu(df) ==
    LET a == Apply(df, "Gpu", "AttributeError", [u \in Texts(df, "Gpu") |-> gpu_first_token(u)])
    IN  IF a.exc # "" THEN Fail(a.exc, df)
        ELSE LET d1 == SetCol(df, "gpu_brand", a.vals) IN Ok(d1, Drop(d1, {"Gpu"}).ret)

\* simplify_os with startswith in place of the substring test
simplify_os_startswith(os) ==
    IF os \in {lbl_macOS, lbl_MacOSX} THEN Str(lbl_mac)
    ELSE IF StartsAt(os, tok_Windows, 1) THEN Str(lbl_windows)
    ELSE Str(lbl_other)

simplify_os(os) == IF os \in {lbl_macOS, lbl_MacOSX} THEN Str(lbl_mac)
                   ELSE IF Contains(tok_Windows, os) THEN Str(lbl_windows)
                   ELSE Str(lbl_other)

process_os(df) ==
    LET a == Apply(df, "OpSys", "TypeError", [u \in Texts(df, "OpSys") |-> simplify_os(u)])
    IN  IF a.exc # "" THEN Fail(a.exc, df)
        ELSE LET d1 == SetCol(df, "os", a.vals) IN Ok(d1, Drop(d1, {"OpSys"}).ret)

(* ------------------------------------------------------------------ *)
(* Schema descriptor (config/schema.yaml) and constants               *)
(* ------------------------------------------------------------------ *)

\* src.constants.TARGET_COLUMN and schema target_column
TARGET_COLUMN == "Price"

\* schema drop_columns: the identifier/index column
drop_columns == {"Unnamed: 0"}

\* schema num_columns
num_columns == <<"Ram", "Weight", "SSD", "HDD">>

\* schema one_hot_encoding_columns
one_hot_encoding_columns == <<"Company", "TypeName", "cpu_name", "gpu_brand", "os">>

\* DataTransformation.drop_id_column: df.drop(drop_col, axis=1)
drop_id_column(df) == Drop(df, drop_columns)

(* ------------------------------------------------------------------ *)
(* ModelEvaluation: its own copy of the normalization rules           *)
(* ------------------------------------------------------------------ *)

\* Ram and Weight lose their unit and become numbers, in place
ME_clean_data(df) ==
    LET ram == AsTypeInt(StrReplace(df, "Ram", tok_GB))
    IN  IF ram.exc # "" THEN Fail(ram.exc, df)
        ELSE LET d1 == SetCol(df, "Ram", ram.vals)
                 w  == AsTypeFloat(StrReplace(d1, "Weight", tok_kg))
             IN  IF w.exc # "" THEN Fail(w.exc, d1)
                 ELSE LET d2 == SetCol(d1, "Weight", w.vals) IN Ok(d2, d2)

\* lambda x: 1 if tok in x else 0
ME_HasToken(tok, x) == IF Contains(tok, x) THEN Num(1, 0) ELSE Num(0, 0)

ME_process_screen_resolution(df) ==
    LET t == Apply(df, "ScreenResolution", "TypeError",
                   [u \in Texts(df, "ScreenResolution") |-> ME_HasToken(tok_Touchscreen, u)])
    IN  IF t.exc # "" THEN Fail(t.exc, df)
        ELSE LET d1 == SetCol(df, "Touchscreen", t.vals)
                 p  == Apply(d1, "ScreenResolution", "TypeError",
                   [u \in Texts(d1, "ScreenResolution") |-> ME_HasToken(tok_IPS, u)])
                 d2 == SetCol(d1, "IPS", p.vals)
                 r  == Drop(d2, {"ScreenResolution", "Inches"})
             IN  IF r.exc # "" THEN Fail(r.exc, d2) ELSE Ok(d2, r.ret)

\* lambda x: ' '.join(x.split()[0:3])
ME_cpu_label(x) == Str(Join(FirstThree(SplitWs(x)), <<" ">>))

ME_categorize_cpu(text) ==
    IF text \in {lbl_i7, lbl_i5, lbl_i3} THEN Str(text)
    ELSE IF SplitWs(text) = <<>> THEN Raise("IndexError")
    ELSE IF SplitWs(text)[1] = lbl_Intel THEN Str(lbl_OtherIntel)
    ELSE Str(lbl_AMD)

ME_process_cpu(df) ==
    LET a == Apply(df, "Cpu", "AttributeError", [u \in Texts(df, "Cpu") |-> ME_cpu_label(u)])
    IN  IF a.exc # "" THEN Fail(a.exc, df)
        ELSE LET d1 == SetCol(df, "cpu_name", a.vals)
                 b  == Apply(d1, "cpu_name", "AttributeError",
                             [u \in Texts(d1, "cpu_name") |-> ME_categorize_cpu(u)])
             IN  IF b.exc # "" THEN Fail(b.exc, d1)
                 ELSE LET d2 == SetCol(d1, "cpu_name", b.vals)
                          r  == Drop(d2, {"Cpu"})
                      IN  Ok(d2, r.ret)

RECURSIVE ME_storage_scan(_, _)
\* the for loop of ME_extract_storage over the parts
ME_storage_scan(parts, storage_type) ==
    IF parts = <<>> THEN Num(0, 0)
    ELSE IF Contains(storage_type, Head(parts))
         THEN LET g    == ReSearchNumber(Head(parts))
                  size == IF g # <<>> THEN PyFloat(g) ELSE Num(0, 0)
              IN  IF Contains(tok_TB, Head(parts)) THEN Times1000(size) ELSE size
         ELSE ME_storage_scan(Tail(parts), storage_type)

ME_extract_storage(mem_str, storage_type) == ME_storage_scan(SplitOn(mem_str, "+"), storage_type)

ME_process_memory(df) ==
    LET a == Apply(df, "Memory", "AttributeError",
                   [u \in Texts(df, "Memory") |-> ME_extract_storage(u, tok_SSD)])
    IN  IF a.exc # "" THEN Fail(a.exc, df)
        ELSE LET d1 == SetCol(df, "SSD", a.vals)
                 b  == Apply(d1, "Memory", "AttributeError",
                             [u \in Texts(d1, "Memory") |-> ME_extract_storage(u, tok_HDD)])
                 d2 == SetCol(d1, "HDD", b.vals)
                 r  == Drop(d2, {"Memory"})
             IN  Ok(d2, r.ret)

\* lambda x: x.split()[0]
ME_gpu_first_token(x) == IF SplitWs(x) = <<>> THEN Raise("IndexError") ELSE Str(SplitWs(x)[1])

ME_process_gpu(df) ==
    LET a == Apply(df, "Gpu", "AttributeError", [u \in Texts(df, "Gpu") |-> ME_gpu_first_token(u)])
    IN  IF a.exc # "" THEN Fail(a.exc, df)
        ELSE LET d1 == SetCol(df, "gpu_brand", a.vals) IN Ok(d1, Drop(d1, {"Gpu"}).ret)

ME_simplify_os(os) == IF os \in {lbl_macOS, lbl_MacOSX} THEN Str(lbl_mac)
                   ELSE IF Contains(tok_Windows, os) THEN Str(lbl_windows)
                   ELSE Str(lbl_other)

ME_process_os(df) ==
    LET a == Apply(df, "OpSys", "TypeError", [u \in Texts(df, "OpSys") |-> ME_simplify_os(u)])
    IN  IF a.exc # "" THEN Fail(a.exc, df)
        ELSE LET d1 == SetCol(df, "os", a.vals) IN Ok(d1, Drop(d1, {"OpSys"}).ret)


\* ModelEvaluation.drop_id_column: drops 'Unnamed: 0' only when it is a column
ME_drop_id_column(df) == IF HasCol(df, "Unnamed: 0")
                         THEN Ok(df, DropCols(df, {"Unnamed: 0"}))
                         ELSE Ok(df, df)

(* ------------------------------------------------------------------ *)
(* The transformer: StandardScaler + OneHotEncoder in a               *)
(* ColumnTransformer with remainder='passthrough'                     *)
(* ------------------------------------------------------------------ *)

\* OneHotEncoder's default
handle_unknown_default == "error"

\* OneHotEncoder(handle_unknown=...)
handle_unknown == "ignore"

\* the transformer before fit
get_data_transformer_object ==
    [fitted |-> FALSE, handle_unknown |-> handle_unknown,
     num |-> num_columns, cat |-> one_hot_encoding_columns]

RECURSIVE Pow10(_)
Pow10(k) == IF k = 0 THEN 1 ELSE 10 * Pow10(k - 1)

Max(S) == CHOOSE x \in S : \A y \in S : y <= x

\* StandardScaler.fit on one column: count, sum and sum of squares of the
\* values, written as integers at the column's largest number of decimals
ScalerFit(vals) ==
    LET e == Max({vals[i].e : i \in DOMAIN vals})
        v == [i \in DOMAIN vals |-> vals[i].m * Pow10(e - vals[i].e)]
        RECURSIVE Sum(_, _)
        Sum(f, n) == IF n = 0 THEN 0 ELSE f[n] + Sum(f, n - 1)
    IN  [n |-> Len(vals), e |-> e, sum |-> Sum(v, Len(vals)),
         sumsq |-> Sum([i \in DOMAIN v |-> v[i] * v[i]], Len(vals))]

\* StandardScaler.transform of one value: (x - mean_) / scale_, scale_ being 1
\* for a constant column; the quotient is num / den, or num / sqrt(den)
ScalerTransform(st, x) ==
    LET E   == IF x.e > st.e THEN x.e ELSE st.e
        X   == x.m * Pow10(E - x.e)
        sum == st.sum * Pow10(E - st.e)
        sq  == st.sumsq * Pow10(E - st.e) * Pow10(E - st.e)
        a   == st.n * X - sum
        b   == st.n * sq - sum * sum
    IN  IF b = 0 THEN [num |-> a, den |-> st.n * Pow10(E), root |-> FALSE]
        ELSE [num |-> a, den |-> b, root |-> TRUE]

\* OneHotEncoder.transform of one value: an indicator per category seen at fit
\* (the indicators are named by their category, not by their position)
OneHot(categories, x) == [v \in categories |-> IF v = x THEN 1 ELSE 0]

\* the columns handed to neither transformer, in the table's order
Remainder(t, X) ==
    SelectSeq(X.cols, LAMBDA c : c \notin Range(t.num) \cup Range(t.cat))

\* Pipeline.fit: the statistics of the numeric columns, the categories of the
\* one-hot columns, the remainder columns
Fit(t, X) ==
    IF \E c \in Range(t.num) \cup Range(t.cat) : ~HasCol(X, c)
    THEN [exc |-> "ValueError", t |-> t]
    ELSE IF \E c \in Range(t.num) : \E i \in 1..NRows(X) : X.rows[i][c].k # "num"
    THEN [exc |-> "ValueError", t |-> t]
    ELSE [exc |-> "",
          t |-> [fitted |-> TRUE, handle_unknown |-> t.handle_unknown,
                 num |-> t.num, cat |-> t.cat,
                 stats |-> [c \in Range(t.num) |->
                              ScalerFit([i \in 1..NRows(X) |-> X.rows[i][c]])],
                 categories |-> [c \in Range(t.cat) |->
                                   {X.rows[i][c] : i \in 1..NRows(X)}],
                 remainder |-> Remainder(t, X)]]

\* Pipeline.transform: one output row per row of X
Transform(t, X) ==
    IF \E c \in Range(t.num) \cup Range(t.cat) \cup Range(t.remainder) : ~HasCol(X, c)
    THEN [exc |-> "ValueError", out |-> <<>>]
    ELSE IF \E c \in Range(t.num) : \E i \in 1..NRows(X) : X.rows[i][c].k # "num"
    THEN [exc |-> "ValueError", out |-> <<>>]
    ELSE IF /\ t.handle_unknown = "error"
            /\ \E c \in Range(t.cat) : \E i \in 1..NRows(X) :
                   X.rows[i][c] \notin t.categories[c]
    THEN [exc |-> "ValueError", out |-> <<>>]
    ELSE [exc |-> "",
          out |-> [i \in 1..NRows(X) |->
                     [num |-> [c \in Range(t.num) |->
                                 ScalerTransform(t.stats[c], X.rows[i][c])],
                      cat |-> [c \in Range(t.cat) |->
                                 OneHot(t.categories[c], X.rows[i][c])],
                      rest |-> [j \in 1..Len(t.remainder) |->
                                  X.rows[i][t.remainder[j]]]]]]

\* np.c_[X_transformed, np.array(y)]: the target as the last column
WithTarget(Xt, y) == [i \in 1..Len(Xt) |-> [x |-> Xt[i], y |-> y[i]]]

(* ------------------------------------------------------------------ *)
(* Raw CSV files: the inputs                                          *)
(* ------------------------------------------------------------------ *)

\* the header of the raw table, without the optional index column
RawColumns == <<"Company", "TypeName", "Inches", "ScreenResolution", "Cpu", "Ram",
                "Memory", "Gpu", "OpSys", "Weight", "Price">>

\* one well-formed raw record
BaseRow == [c \in Range(RawColumns) |->
              CASE c = "Company" -> <<"D", "e", "l", "l">>
                [] c = "TypeName" -> <<"N", "o", "t", "e", "b", "o", "o", "k">>
                [] c = "Inches" -> <<"1", "5", ".", "6">>
                [] c = "ScreenResolution" -> <<"I", "P", "S", " ", "1", "9", "2", "0", "x", "1", "0", "8", "0">>
                [] c = "Cpu" -> <<"I", "n", "t", "e", "l", " ", "C", "o", "r", "e", " ", "i", "5", " ", "7", "2", "0", "0", "U">>
                [] c = "Ram" -> <<"8", "G", "B">>
                [] c = "Memory" -> <<"2", "5", "6", "G", "B", " ", "S", "S", "D">>
                [] c = "Gpu" -> <<"I", "n", "t", "e", "l", " ", "H", "D", " ", "6", "2", "0">>
                [] c = "OpSys" -> <<"W", "i", "n", "d", "o", "w", "s", " ", "1", "0">>
                [] c = "Weight" -> <<"2", ".", "1", "k", "g">>
                [] c = "Price" -> <<"5", "0", "0">>]

\* the base record with one field replaced
With(c, text) == [BaseRow EXCEPT ![c] = text]

RamTexts == {<<"8", "G", "B">>,
            <<"1", "6", "G", "B">>,
            <<"1", "6">>,
            <<"G", "B">>}

WeightTexts == {<<"2", ".", "1", "k", "g">>,
               <<"1", ".", "3", "7", "k", "g">>,
               <<"2", ".", "1">>}

ScreenTexts == {<<"1", "3", "6", "6", "x", "7", "6", "8">>,
               <<"I", "P", "S", " ", "1", "9", "2", "0", "x", "1", "0", "8", "0">>,
               <<"T", "o", "u", "c", "h", "s", "c", "r", "e", "e", "n", " ", "2", "5", "6", "0", "x", "1", "4", "4", "0">>,
               <<"I", "P", "S", " ", "T", "o", "u", "c", "h", "s", "c", "r", "e", "e", "n", " ", "1", "9", "2", "0", "x", "1", "2", "0", "0">>}

CompanyTexts == {<<"D", "e", "l", "l">>,
                <<"H", "P">>}

GpuTexts == {<<"I", "n", "t", "e", "l", " ", "H", "D", " ", "6", "2", "0">>,
            <<"N", "v", "i", "d", "i", "a", " ", "G", "T", "X", " ", "1", "0", "5", "0">>,
            <<"A", "M", "D", " ", "R", "a", "d", "e", "o", "n", " ", "5", "3", "0">>}

OpSysTexts == {<<"m", "a", "c", "O", "S">>,
              <<"M", "a", "c", " ", "O", "S", " ", "X">>,
              <<"W", "i", "n", "d", "o", "w", "s", " ", "1", "0">>,
              <<"W", "i", "n", "d", "o", "w", "s", " ", "1", "0", " ", "S">>,
              <<"W", "i", "n", "d", "o", "w", "s", " ", "7">>,
              <<"L", "i", "n", "u", "x">>,
              <<"N", "o", " ", "O", "S">>,
              <<"C", "h", "r", "o", "m", "e", " ", "O", "S">>,
              <<"A", "n", "d", "r", "o", "i", "d">>,
              <<"m", "a", "c">>,
              <<"m", "a", "c", "O", "S", " ", "1", "0">>,
              <<"M", "y", " ", "W", "i", "n", "d", "o", "w", "s">>}

(* Memory descriptors: one or more parts <number><unit> <kind> joined by " +  " *)
MaxMemParts == 2

\* one part of a Memory text: a number, a unit and a kind of storage
MemPart == [num : {<<"2", "5", "6">>, <<"1">>, <<"1", ".", "0">>},
            unit : {tok_GB, tok_TB},
            kind : {tok_SSD, tok_HDD, <<"H", "y", "b", "r", "i", "d">>}]

MemStruct == UNION {[1..n -> MemPart] : n \in 1..MaxMemParts}

RenderPart(p) == p.num \o p.unit \o <<" ">> \o p.kind

RenderMemory(ps) == Join([i \in 1..Len(ps) |-> RenderPart(ps[i])], <<" ", "+", " ", " ">>)

(* Cpu descriptors: tokens separated by one or two spaces *)
MaxCpuTokens == 3

CpuTokens == {<<"I", "n", "t", "e", "l">>,
             <<"C", "o", "r", "e">>,
             <<"i", "7">>,
             <<"i", "5">>,
             <<"i", "3">>,
             <<"A", "M", "D">>,
             <<"C", "e", "l", "e", "r", "o", "n">>}

CpuStruct == UNION {[1..n -> CpuTokens] : n \in 1..MaxCpuTokens}

CpuExamples == {<<"I", "n", "t", "e", "l", " ", "C", "o", "r", "e", " ", "i", "7", " ", "7", "7", "0", "0", "H", "Q", " ", "2", ".", "8", "G", "H", "z">>,
               <<"I", "n", "t", "e", "l", " ", "C", "e", "l", "e", "r", "o", "n", " ", "D", "u", "a", "l", " ", "C", "o", "r", "e", " ", "N", "3", "0", "6", "0">>,
               <<"A", "M", "D", " ", "A", "9", "-", "S", "e", "r", "i", "e", "s", " ", "9", "4", "2", "0">>,
               <<"I", "n", "t", "e", "l", " ", " ", "C", "o", "r", "e", " ", " ", "i", "3", " ", "6", "0", "0", "6", "U">>,
               <<"S", "a", "m", "s", "u", "n", "g", " ", "C", "o", "r", "t", "e", "x", " ", "A", "7", "2", "&", "A", "5", "3">>}

\* raw records that differ from the base record in one field given as text
LiteralSamples ==
    {<<"Ram", t>> : t \in RamTexts} \cup {<<"Weight", t>> : t \in WeightTexts}
    \cup {<<"ScreenResolution", t>> : t \in ScreenTexts}
    \cup {<<"Company", t>> : t \in CompanyTexts}
    \cup {<<"Gpu", t>> : t \in GpuTexts} \cup {<<"OpSys", t>> : t \in OpSysTexts}
    \cup {<<"Cpu", t>> : t \in CpuExamples}
    \cup {<<"Memory", <<"5", "1", "2", "G", "B", " ", "S", "S", "D">>>>}

\* the text of a row number
IndexText(i) == <<CASE i = 1 -> "0" [] i = 2 -> "1" [] i = 3 -> "2" [] OTHER -> "3">>

\* a CSV file of the given records, with or without the index column
Csv(recs, hasId) ==
    [cols |-> IF hasId THEN <<"Unnamed: 0">> \o RawColumns ELSE RawColumns,
     rows |-> [i \in 1..Len(recs) |->
                 [c \in Range(RawColumns) \cup (IF hasId THEN {"Unnamed: 0"} ELSE {}) |->
                    IF c = "Unnamed: 0" THEN IndexText(i) ELSE recs[i][c]]]]

\* pd.read_csv: a column whose cells all parse as numbers is numeric, else str
read_csv(csv) ==
    LET kind(c) == IF \A i \in 1..Len(csv.rows) : IsIntText(csv.rows[i][c]) THEN "int"
                   ELSE IF \A i \in 1..Len(csv.rows) : IsFloatText(csv.rows[i][c])
                        THEN "float" ELSE "str"
    IN  [cols |-> csv.cols,
         rows |-> [i \in 1..Len(csv.rows) |->
                     [c \in Range(csv.cols) |->
                        CASE kind(c) = "int" -> PyInt(csv.rows[i][c])
                          [] kind(c) = "float" -> PyFloat(csv.rows[i][c])
                          [] OTHER -> Str(csv.rows[i][c])]]]

(* ------------------------------------------------------------------ *)
(* State                                                              *)
(* ------------------------------------------------------------------ *)

VARIABLES
    sample,     \* how the record of the table was made: the field that differs
                \* from the base record, its text and the parts of that text
    rule,       \* the rule that was called on a table, "" before the call
    rule_in,    \* the table as it was passed to the rule
    rule_out,   \* the call's outcome: exception, the passed table after it, the result
    train_csv,  \* the raw train file (data_ingestion_artifact.trained_file_path)
    test_csv,   \* the raw test file (data_ingestion_artifact.test_file_path)
    pc,         \* where initiate_data_transformation stands
    rule_i,     \* the next normalization rule to call
    train_df, test_df,
    X_train, y_train, X_test, y_test,
    preprocessor,
    X_train_transformed, X_test_transformed,
    files,      \* the three artifact files of the run
    exc,        \* the exception the run raised, "" when none
    e_pc,       \* where ModelEvaluation.evaluate_model stands
    e_rule_i,   \* the next normalization rule evaluate_model calls
    x, y,       \* evaluate_model's features and target
    trained_model_r2_score,   \* model_trainer_artifact.metric_artifact.r2_score
    best_model,               \* whether get_best_model returned an estimator
    best_model_r2_score,      \* <<>> for None, <<score>> otherwise
    result,                   \* <<>>, or <<the EvaluateModelResponse>>
    e_exc,      \* the exception evaluate_model raised, "" when none
    s_pc,       \* where predictRouteClient stands
    request,    \* the submitted form: field -> text, <<>> when missing
    form,       \* the DataForm fields after get_Laptop_data
    Laptop_df,
    predicted_price,
    responses,  \* the responses the request got
    s_exc       \* the exception caught by predictRouteClient, "" when none

ruleVars == <<sample, rule, rule_in, rule_out>>

runVars == <<train_csv, test_csv, pc, rule_i, train_df, test_df, X_train, y_train,
             X_test, y_test, preprocessor, X_train_transformed, X_test_transformed,
             files, exc>>

evalVars == <<e_pc, e_rule_i, x, y, trained_model_r2_score, best_model,
              best_model_r2_score, result, e_exc>>

serveVars == <<s_pc, request, form, Laptop_df, predicted_price, responses, s_exc>>

vars == <<ruleVars, runVars, evalVars, serveVars>>

\* no table
NoDf == [cols |-> <<>>, rows |-> <<>>]

\* an artifact file that does not exist
NoFile == [exists |-> FALSE]

\* an artifact file holding content
File(content) == [exists |-> TRUE, content |-> content]

\* the rule calls before any call is made
IdleRules ==
    /\ sample = [field |-> "", text |-> <<>>, mem |-> <<>>, cpu |-> <<>>]
    /\ rule = "" /\ rule_in = NoDf /\ rule_out = Ok(NoDf, NoDf)

\* the data transformation component with the given input files, not started
RunAt(start, train, test) ==
    /\ train_csv = train /\ test_csv = test
    /\ pc = start /\ rule_i = 1
    /\ train_df = NoDf /\ test_df = NoDf
    /\ X_train = NoDf /\ y_train = <<>> /\ X_test = NoDf /\ y_test = <<>>
    /\ preprocessor = get_data_transformer_object
    /\ X_train_transformed = <<>> /\ X_test_transformed = <<>>
    /\ files = [object |-> NoFile, train |-> NoFile, test |-> NoFile]
    /\ exc = ""

IdleRun == RunAt("idle", NoDf, NoDf)

\* evaluate_model with the given stored score of the trained model, not started
EvalAt(start, score) ==
    /\ e_pc = start /\ e_rule_i = 1
    /\ x = NoDf /\ y = <<>>
    /\ trained_model_r2_score = score
    /\ best_model = FALSE /\ best_model_r2_score = <<>>
    /\ result = <<>>
    /\ e_exc = ""

IdleEval == EvalAt("idle", 0)

\* a request with the given form, not handled yet
ServeAt(start, fields) ==
    /\ s_pc = start
    /\ request = fields
    /\ form = <<>>
    /\ Laptop_df = NoDf
    /\ predicted_price = <<>>
    /\ responses = <<>>
    /\ s_exc = ""

IdleServe == ServeAt("idle", <<>>)

(* ------------------------------------------------------------------ *)
(* The rules, each called on a freshly read one-record table          *)
(* ------------------------------------------------------------------ *)

\* a one-record table made as the sample says, no rule called on it yet
RulesAt(smp, hasId) ==
    /\ sample = smp
    /\ rule = ""
    /\ rule_in = read_csv(Csv(<<With(smp.field, smp.text)>>, hasId))
    /\ rule_out = Ok(NoDf, NoDf)

InitRules ==
    /\ IdleRun /\ IdleEval /\ IdleServe
    /\ \E hasId \in BOOLEAN :
         \/ \E ps \in MemStruct :
              RulesAt([field |-> "Memory", text |-> RenderMemory(ps),
                       mem |-> ps, cpu |-> <<>>], hasId)
         \/ \E ts \in CpuStruct :
              RulesAt([field |-> "Cpu", text |-> Join(ts, <<" ">>),
                       mem |-> <<>>, cpu |-> ts], hasId)
         \/ \E l \in LiteralSamples :
              RulesAt([field |-> l[1], text |-> l[2], mem |-> <<>>, cpu |-> <<>>], hasId)

RuleCall(name, outcome) ==
    /\ rule = ""
    /\ rule' = name
    /\ rule_out' = outcome
    /\ UNCHANGED <<sample, rule_in, runVars, evalVars, serveVars>>

NextRules ==
    \/ RuleCall("clean_data", clean_data(rule_in))
    \/ RuleCall("process_screen_resolution", process_screen_resolution(rule_in))
    \/ RuleCall("process_memory", process_memory(rule_in))
    \/ RuleCall("process_cpu", process_cpu(rule_in))
    \/ RuleCall("process_gpu", process_gpu(rule_in))
    \/ RuleCall("process_os", process_os(rule_in))
    \/ RuleCall("drop_id_column", drop_id_column(rule_in))
    \/ RuleCall("ME_clean_data", ME_clean_data(rule_in))
    \/ RuleCall("ME_process_screen_resolution", ME_process_screen_resolution(rule_in))
    \/ RuleCall("ME_process_memory", ME_process_memory(rule_in))
    \/ RuleCall("ME_process_cpu", ME_process_cpu(rule_in))
    \/ RuleCall("ME_process_gpu", ME_process_gpu(rule_in))
    \/ RuleCall("ME_process_os", ME_process_os(rule_in))
    \/ RuleCall("ME_drop_id_column", ME_drop_id_column(rule_in))

SpecRules == InitRules /\ [][NextRules]_vars

(* ------------------------------------------------------------------ *)
(* DataTransformation.initiate_data_transformation, statement by      *)
(* statement; any exception ends the run (except clause)              *)
(* ------------------------------------------------------------------ *)

MaxTrainRows == 2

\* the raw records of the run's files
RunRows == {BaseRow,
            With("Ram", <<"1", "6", "G", "B">>), With("Ram", <<"1", "6">>),
            With("Ram", <<"G", "B">>), With("Weight", <<"1", ".", "3", "7", "k", "g">>),
            With("Company", <<"H", "P">>), With("OpSys", <<"L", "i", "n", "u", "x">>)}

\* the rules in the order the run calls them on each split
TrainRules == <<"clean_data", "process_screen_resolution", "process_memory",
                "process_cpu", "process_gpu", "process_os", "drop_id_column">>

\* self.<name>(df)
ApplyRule(name, df) ==
    CASE name = "clean_data" -> clean_data(df)
      [] name = "process_screen_resolution" -> process_screen_resolution(df)
      [] name = "process_memory" -> process_memory(df)
      [] name = "process_cpu" -> process_cpu(df)
      [] name = "process_gpu" -> process_gpu(df)
      [] name = "process_os" -> process_os(df)
      [] name = "drop_id_column" -> drop_id_column(df)

Init ==
    /\ IdleRules /\ IdleEval /\ IdleServe
    /\ \E hasId \in BOOLEAN :
         \E train \in UNION {[1..n -> RunRows] : n \in 1..MaxTrainRows} :
           \E test \in RunRows :
             RunAt("read_train", Csv(train, hasId), Csv(<<test>>, hasId))

\* raise MyException(e, sys)
Raised(e) == pc' = "raised" /\ exc' = e

\* train_df = self.read_data(trained_file_path)
ReadTrain ==
    /\ pc = "read_train"
    /\ train_df' = read_csv(train_csv)
    /\ pc' = "norm_train"
    /\ UNCHANGED <<ruleVars, evalVars, serveVars, train_csv, test_csv, rule_i, test_df, X_train, y_train, X_test, y_test, preprocessor, X_train_transformed, X_test_transformed, files, exc>>

\* train_df = self.<rule>(train_df), one rule after the other
NormalizeTrain ==
    /\ pc = "norm_train"
    /\ LET r == ApplyRule(TrainRules[rule_i], train_df)
       IN  IF r.exc # ""
           THEN train_df' = r.arg /\ Raised(r.exc) /\ UNCHANGED rule_i
           ELSE /\ train_df' = r.ret
                /\ IF rule_i < Len(TrainRules)
                   THEN rule_i' = rule_i + 1 /\ pc' = pc
                   ELSE rule_i' = 1 /\ pc' = "split_train"
                /\ exc' = exc
    /\ UNCHANGED <<ruleVars, evalVars, serveVars, train_csv, test_csv, test_df, X_train, y_train, X_test, y_test, preprocessor, X_train_transformed, X_test_transformed, files>>

\* X_train, y_train = the features and the target column of train_df
SplitTrain ==
    /\ pc = "split_train"
    /\ LET r == Drop(train_df, {TARGET_COLUMN})
       IN  IF r.exc # "" THEN Raised(r.exc) /\ UNCHANGED <<X_train, y_train>>
           ELSE /\ X_train' = r.ret
                /\ y_train' = [i \in 1..NRows(train_df) |-> train_df.rows[i][TARGET_COLUMN]]
                /\ pc' = "read_test" /\ exc' = exc
    /\ UNCHANGED <<ruleVars, evalVars, serveVars, train_csv, test_csv, rule_i, train_df, test_df, X_test, y_test, preprocessor, X_train_transformed, X_test_transformed, files>>

\* test_df = self.read_data(test_file_path)
ReadTest ==
    /\ pc = "read_test"
    /\ test_df' = read_csv(test_csv)
    /\ pc' = "norm_test"
    /\ UNCHANGED <<ruleVars, evalVars, serveVars, train_csv, test_csv, rule_i, train_df, X_train, y_train, X_test, y_test, preprocessor, X_train_transformed, X_test_transformed, files, exc>>

\* test_df = self.<rule>(test_df), one rule after the other
NormalizeTest ==
    /\ pc = "norm_test"
    /\ LET r == ApplyRule(TrainRules[rule_i], test_df)
       IN  IF r.exc # ""
           THEN test_df' = r.arg /\ Raised(r.exc) /\ UNCHANGED rule_i
           ELSE /\ test_df' = r.ret
                /\ IF rule_i < Len(TrainRules)
                   THEN rule_i' = rule_i + 1 /\ pc' = pc
                   ELSE rule_i' = 1 /\ pc' = "split_test"
                /\ exc' = exc
    /\ UNCHANGED <<ruleVars, evalVars, serveVars, train_csv, test_csv, train_df, X_train, y_train, X_test, y_test, preprocessor, X_train_transformed, X_test_transformed, files>>

\* X_test, y_test = the features and the target column of test_df
SplitTest ==
    /\ pc = "split_test"
    /\ LET r == Drop(test_df, {TARGET_COLUMN})
       IN  IF r.exc # "" THEN Raised(r.exc) /\ UNCHANGED <<X_test, y_test>>
           ELSE /\ X_test' = r.ret
                /\ y_test' = [i \in 1..NRows(test_df) |-> test_df.rows[i][TARGET_COLUMN]]
                /\ pc' = "fit" /\ exc' = exc
    /\ UNCHANGED <<ruleVars, evalVars, serveVars, train_csv, test_csv, rule_i, train_df, test_df, X_train, y_train, preprocessor, X_train_transformed, X_test_transformed, files>>

\* X_train_transformed = preprocessor.fit_transform(X_train)
FitTransformTrain ==
    /\ pc = "fit"
    /\ LET f == Fit(preprocessor, X_train)
           t == Transform(f.t, X_train)
       IN  IF f.exc # ""
           THEN Raised(f.exc) /\ UNCHANGED <<preprocessor, X_train_transformed>>
           ELSE /\ preprocessor' = f.t
                /\ IF t.exc # "" THEN Raised(t.exc) /\ UNCHANGED X_train_transformed
                   ELSE /\ X_train_transformed' = t.out
                        /\ pc' = "transform" /\ exc' = exc
    /\ UNCHANGED <<ruleVars, evalVars, serveVars, train_csv, test_csv, rule_i, train_df, test_df, X_train, y_train, X_test, y_test, X_test_transformed, files>>

\* a test step that fits the transformer again, on the test features
TransformTest_refit ==
    /\ pc = "transform"
    /\ LET f == Fit(get_data_transformer_object, X_test)
           t == Transform(f.t, X_test)
       IN  IF f.exc # "" \/ t.exc # ""
           THEN Raised("ValueError") /\ UNCHANGED <<preprocessor, X_test_transformed>>
           ELSE /\ preprocessor' = f.t
                /\ X_test_transformed' = t.out
                /\ pc' = "save_object" /\ exc' = exc
    /\ UNCHANGED <<ruleVars, evalVars, serveVars, train_csv, test_csv, rule_i, train_df, test_df, X_train, y_train, X_test, y_test, X_train_transformed, files>>

\* X_test_transformed = preprocessor.transform(X_test)
TransformTest ==
    /\ pc = "transform"
    /\ LET t == Transform(preprocessor, X_test)
       IN  IF t.exc # "" THEN Raised(t.exc) /\ UNCHANGED X_test_transformed
           ELSE /\ X_test_transformed' = t.out
                /\ pc' = "save_object" /\ exc' = exc
    /\ UNCHANGED <<ruleVars, evalVars, serveVars, train_csv, test_csv, rule_i, train_df, test_df, X_train, y_train, X_test, y_test, preprocessor, X_train_transformed, files>>

\* a save: the file is written, or the write raises and the file stays as it was
Save(at, name, content, next) ==
    /\ pc = at
    /\ \/ files' = [files EXCEPT ![name] = File(content)] /\ pc' = next /\ exc' = exc
       \/ files' = files /\ Raised("OSError")
    /\ UNCHANGED <<ruleVars, evalVars, serveVars, train_csv, test_csv, rule_i, train_df, test_df, X_train, y_train, X_test, y_test, preprocessor, X_train_transformed, X_test_transformed>>

\* save_object(transformed_object_file_path, preprocessor)
SaveObject == Save("save_object", "object", preprocessor, "save_train")

\* save_numpy_array_data(transformed_train_file_path, array=train_final_array)
SaveTrainArray ==
    Save("save_train", "train", WithTarget(X_train_transformed, y_train), "save_test")

\* save_numpy_array_data(transformed_test_file_path, array=test_final_array)
SaveTestArray ==
    Save("save_test", "test", WithTarget(X_test_transformed, y_test), "return")

\* return DataTransformationArtifact(...)
Return ==
    /\ pc = "return"
    /\ pc' = "returned"
    /\ UNCHANGED <<ruleVars, evalVars, serveVars, train_csv, test_csv, rule_i, train_df, test_df, X_train, y_train, X_test, y_test, preprocessor, X_train_transformed, X_test_transformed, files, exc>>

Next ==
    \/ ReadTrain \/ NormalizeTrain \/ SplitTrain
    \/ ReadTest \/ NormalizeTest \/ SplitTest
    \/ FitTransformTrain \/ TransformTest
    \/ SaveObject \/ SaveTrainArray \/ SaveTestArray
    \/ Return

Spec == Init /\ [][Next]_vars

RECURSIVE RuleChain(_, _, _)
\* the rules of order from the i-th on, each applied to the result of the one before
RuleChain(order, i, df) ==
    IF i > Len(order) THEN Ok(df, df)
    ELSE LET r == ApplyRule(order[i], df)
         IN  IF r.exc # "" THEN r ELSE RuleChain(order, i + 1, r.ret)

\* X_test of initiate_data_transformation for a raw test file
DT_features(csv) ==
    LET n == RuleChain(TrainRules, 1, read_csv(csv))
    IN  IF n.exc # "" THEN n ELSE Drop(n.ret, {TARGET_COLUMN})

(* ------------------------------------------------------------------ *)
(* ModelEvaluation.evaluate_model, statement by statement              *)
(* ------------------------------------------------------------------ *)

\* the rules in the order evaluate_model calls them
EvalRules == <<"clean_data", "process_screen_resolution", "process_cpu",
               "process_gpu", "process_memory", "process_os", "drop_id_column">>

\* self.<name>(x) of ModelEvaluation
ME_ApplyRule(name, df) ==
    CASE name = "clean_data" -> ME_clean_data(df)
      [] name = "process_screen_resolution" -> ME_process_screen_resolution(df)
      [] name = "process_memory" -> ME_process_memory(df)
      [] name = "process_cpu" -> ME_process_cpu(df)
      [] name = "process_gpu" -> ME_process_gpu(df)
      [] name = "process_os" -> ME_process_os(df)
      [] name = "drop_id_column" -> ME_drop_id_column(df)

\* R2 scores, in hundredths
Scores == {-20, 0, 80, 85}

\* acceptance on a score that is not lower
is_model_accepted_or_equal(trained, tmp_best_model_score) == trained >= tmp_best_model_score

\* is_model_accepted of the response
is_model_accepted(trained, tmp_best_model_score) == trained > tmp_best_model_score

\* a response that reports the comparison baseline, 0 for a missing incumbent
EvaluateModelResponse_baseline(trained, best) ==
    LET tmp_best_model_score == IF best = <<>> THEN 0 ELSE best[1]
    IN  [trained_model_r2_score |-> trained,
         best_model_r2_score |-> <<tmp_best_model_score>>,
         is_model_accepted |-> is_model_accepted(trained, tmp_best_model_score),
         difference |-> trained - tmp_best_model_score]

\* the EvaluateModelResponse built from the stored score and the incumbent's
EvaluateModelResponse(trained, best) ==
    LET tmp_best_model_score == IF best = <<>> THEN 0 ELSE best[1]
    IN  [trained_model_r2_score |-> trained,
         best_model_r2_score |-> best,
         is_model_accepted |-> is_model_accepted(trained, tmp_best_model_score),
         difference |-> trained - tmp_best_model_score]

InitEval ==
    /\ IdleRules /\ IdleServe
    /\ \E hasId \in BOOLEAN : \E test \in RunRows :
         RunAt("idle", NoDf, Csv(<<test>>, hasId))
    /\ \E score \in Scores : EvalAt("read_test", score)

\* raise MyException(e, sys)
EvalRaised(e) == e_pc' = "raised" /\ e_exc' = e

\* test_df = pd.read_csv(test_file_path); x, y = features and target
EvalRead ==
    /\ e_pc = "read_test"
    /\ LET df == read_csv(test_csv)
           r  == Drop(df, {TARGET_COLUMN})
       IN  IF r.exc # "" THEN EvalRaised(r.exc) /\ UNCHANGED <<x, y>>
           ELSE /\ x' = r.ret
                /\ y' = [i \in 1..NRows(df) |-> df.rows[i][TARGET_COLUMN]]
                /\ e_pc' = "normalize" /\ e_exc' = e_exc
    /\ UNCHANGED <<ruleVars, runVars, serveVars, e_rule_i, trained_model_r2_score, best_model, best_model_r2_score, result>>

\* x = self.<rule>(x), one rule after the other
EvalNormalize ==
    /\ e_pc = "normalize"
    /\ LET r == ME_ApplyRule(EvalRules[e_rule_i], x)
       IN  IF r.exc # ""
           THEN x' = r.arg /\ EvalRaised(r.exc) /\ UNCHANGED e_rule_i
           ELSE /\ x' = r.ret
                /\ IF e_rule_i < Len(EvalRules)
                   THEN e_rule_i' = e_rule_i + 1 /\ e_pc' = e_pc
                   ELSE e_rule_i' = 1 /\ e_pc' = "load_trained"
                /\ e_exc' = e_exc
    /\ UNCHANGED <<ruleVars, runVars, serveVars, y, trained_model_r2_score, best_model, best_model_r2_score, result>>

\* trained_model = load_object(trained_model_file_path): loaded, or it raises
EvalLoadTrained ==
    /\ e_pc = "load_trained"
    /\ \/ e_pc' = "get_best" /\ e_exc' = e_exc
       \/ EvalRaised("FileNotFoundError")
    /\ UNCHANGED <<ruleVars, runVars, serveVars, e_rule_i, x, y, trained_model_r2_score, best_model, best_model_r2_score, result>>

\* best_model = self.get_best_model(): an estimator, None, or it raises
EvalGetBestModel ==
    /\ e_pc = "get_best"
    /\ \/ \E present \in BOOLEAN :
            best_model' = present /\ e_pc' = "score_best" /\ e_exc' = e_exc
       \/ EvalRaised("MyException") /\ UNCHANGED best_model
    /\ UNCHANGED <<ruleVars, runVars, serveVars, e_rule_i, x, y, trained_model_r2_score, best_model_r2_score, result>>

\* if best_model is not None: best_model_r2_score = r2_score(y, best_model.predict(x))
EvalScoreBest ==
    /\ e_pc = "score_best"
    /\ IF best_model
       THEN \/ \E score \in Scores :
                 best_model_r2_score' = <<score>> /\ e_pc' = "respond" /\ e_exc' = e_exc
            \/ EvalRaised("MyException") /\ UNCHANGED best_model_r2_score
       ELSE e_pc' = "respond" /\ UNCHANGED <<best_model_r2_score, e_exc>>
    /\ UNCHANGED <<ruleVars, runVars, serveVars, e_rule_i, x, y, trained_model_r2_score, best_model, result>>

\* result = EvaluateModelResponse(...); return result
EvalRespond ==
    /\ e_pc = "respond"
    /\ result' = <<EvaluateModelResponse(trained_model_r2_score, best_model_r2_score)>>
    /\ e_pc' = "returned"
    /\ UNCHANGED <<ruleVars, runVars, serveVars, e_rule_i, x, y, trained_model_r2_score, best_model, best_model_r2_score, e_exc>>

NextEval ==
    \/ EvalRead \/ EvalNormalize \/ EvalLoadTrained
    \/ EvalGetBestModel \/ EvalScoreBest \/ EvalRespond

SpecEval == InitEval /\ [][NextEval]_vars

(* ------------------------------------------------------------------ *)
(* The prediction frame and the serving endpoint                      *)
(* ------------------------------------------------------------------ *)

\* the keys of LaptopData.get_laptop_data_as_dict, in order
LaptopColumns == <<"Company", "TypeName", "Ram", "Weight", "Touchscreen", "IPS",
                   "cpu_name", "gpu_brand", "os", "SSD", "HDD">>

\* DataFrame([laptop_input_dict]): one row, the dict's keys as columns
get_laptop_input_data_frame(data) ==
    [cols |-> LaptopColumns, rows |-> <<[c \in Range(LaptopColumns) |-> data[c]]>>]

\* int(form.get(f)): a missing field is None
FormInt(fields, f) == IF fields[f] = <<>> THEN Raise("TypeError") ELSE PyInt(fields[f][1])

\* float(form.get(f))
FormFloat(fields, f) == IF fields[f] = <<>> THEN Raise("TypeError") ELSE PyFloat(fields[f][1])

\* form.get(f) of a text field
FormText(fields, f) == IF fields[f] = <<>> THEN Str(<<>>) ELSE Str(fields[f][1])

\* DataForm.get_Laptop_data: the first conversion that fails raises
get_Laptop_data(fields) ==
    LET data == [c \in Range(LaptopColumns) |->
                   CASE c \in {"Ram", "Touchscreen", "IPS", "SSD", "HDD"} ->
                            FormInt(fields, c)
                     [] c = "Weight" -> FormFloat(fields, c)
                     [] OTHER -> FormText(fields, c)]
        order == <<"Ram", "Weight", "Touchscreen", "IPS", "SSD", "HDD">>
    IN  [exc |-> FirstRaise([i \in 1..Len(order) |-> data[order[i]]]), data |-> data]

\* an except clause for ValueError only
OnException_value_error_only(e) == IF e = "ValueError" THEN "except" ELSE "crashed"

\* except Exception as e: where an exception raised in the try block goes
OnException(e) == "except"

DigitChar(d) == CASE d = 0 -> "0" [] d = 1 -> "1" [] d = 2 -> "2" [] d = 3 -> "3"
                  [] d = 4 -> "4" [] d = 5 -> "5" [] d = 6 -> "6" [] d = 7 -> "7"
                  [] d = 8 -> "8" [] d = 9 -> "9"

RECURSIVE NatText(_)
\* str(n) for n >= 0
NatText(n) == IF n < 10 THEN <<DigitChar(n)>>
              ELSE NatText(n \div 10) \o <<DigitChar(n % 10)>>

RECURSIVE Grouped(_)
\* the ',' format option: a comma before every group of three digits
Grouped(t) == IF Len(t) <= 3 THEN t
              ELSE Grouped(SubSeq(t, 1, Len(t) - 3)) \o <<",">> \o SubSeq(t, Len(t) - 2, Len(t))

txt_PredictedPrice == <<"P", "r", "e", "d", "i", "c", "t", "e", "d", " ", "P", "r", "i", "c", "e", ":", " ">> \o <<"rupee">>

txt_Error == <<"E", "r", "r", "o", "r", ":", " ">>

\* f"Predicted Price: <rupee sign>{int(predicted_price):,}"
FormatPrice(price) == txt_PredictedPrice \o Grouped(NatText(price.m \div Pow10(price.e)))

\* the prices the model may predict
Prices == {Num(459995, 1), Num(1234567, 0), Num(999, 0)}

\* the forms a client may submit: the base form with some fields changed
Requests ==
    {[c \in Range(LaptopColumns) |->
        CASE c = "Ram" -> ram [] c = "Weight" -> <<weight>>
          [] c = "Touchscreen" -> <<touch>> [] c = "SSD" -> ssd
          [] c = "IPS" -> <<<<"0">>>> [] c = "HDD" -> <<<<"0">>>>
          [] c = "Company" -> <<<<"D", "e", "l", "l">>>>
          [] c = "TypeName" -> <<<<"N", "o", "t", "e", "b", "o", "o", "k">>>>
          [] c = "cpu_name" -> <<lbl_i5>>
          [] c = "gpu_brand" -> <<lbl_Intel>>
          [] c = "os" -> <<lbl_windows>>] :
        ram \in {<<<<"8">>>>, <<<<"1", "6">>>>, <<<<"8", "G", "B">>>>, <<>>},
        weight \in {<<"2", ".", "1">>, <<"1", ".", "5">>, <<"h", "e", "a", "v", "y">>},
        touch \in {<<"1">>, <<"0">>, <<"y", "e", "s">>},
        ssd \in {<<<<"2", "5", "6">>>>, <<<<"5", "1", "2">>>>, <<<<>>>>}}

InitServe ==
    /\ IdleRules /\ IdleRun /\ IdleEval
    /\ \E fields \in Requests : ServeAt("parse", fields)

\* an exception raised in the try block
Caught(e) == s_pc' = OnException(e) /\ s_exc' = e

\* form = DataForm(request); await form.get_Laptop_data()
ParseForm ==
    /\ s_pc = "parse"
    /\ LET r == get_Laptop_data(request)
       IN  IF r.exc # "" THEN Caught(r.exc) /\ UNCHANGED form
           ELSE form' = <<r.data>> /\ s_pc' = "build" /\ s_exc' = s_exc
    /\ UNCHANGED <<ruleVars, runVars, evalVars, request, Laptop_df, predicted_price, responses>>

\* Laptop_data = LaptopData(...); Laptop_df = Laptop_data.get_laptop_input_data_frame()
BuildFrame ==
    /\ s_pc = "build"
    /\ Laptop_df' = get_laptop_input_data_frame(form[1])
    /\ s_pc' = "predict"
    /\ UNCHANGED <<ruleVars, runVars, evalVars, request, form, predicted_price, responses, s_exc>>

\* predicted_price = model_predictor.predict(dataframe=Laptop_df)[0]: a price,
\* or LaptopDataRegressor.predict raises MyException
Predict ==
    /\ s_pc = "predict"
    /\ \/ \E p \in Prices :
            predicted_price' = <<p>> /\ s_pc' = "format" /\ s_exc' = s_exc
       \/ Caught("MyException") /\ UNCHANGED predicted_price
    /\ UNCHANGED <<ruleVars, runVars, evalVars, request, form, Laptop_df, responses>>

\* return templates.TemplateResponse(..., {"context": result})
RenderPrice ==
    /\ s_pc = "format"
    /\ responses' = Append(responses, FormatPrice(predicted_price[1]))
    /\ s_pc' = "done"
    /\ UNCHANGED <<ruleVars, runVars, evalVars, request, form, Laptop_df, predicted_price, s_exc>>

\* except Exception as e: return templates.TemplateResponse(..., f"Error: {e}")
RenderError ==
    /\ s_pc = "except"
    /\ responses' = Append(responses, txt_Error \o <<s_exc>>)
    /\ s_pc' = "done"
    /\ UNCHANGED <<ruleVars, runVars, evalVars, request, form, Laptop_df, predicted_price, s_exc>>

NextServe == ParseForm \/ BuildFrame \/ Predict \/ RenderPrice \/ RenderError

SpecServe == InitServe /\ [][NextServe]_vars

(* ------------------------------------------------------------------ *)
(* Claims about the rules (SpecRules)                                 *)
(* ------------------------------------------------------------------ *)

\* the value a number text of a memory part stands for
MemNumberValue(n) == CASE n = <<"2", "5", "6">> -> Num(256, 0)
                       [] n = <<"1">> -> Num(1, 0)
                       [] n = <<"1", ".", "0">> -> Num(1, 0)

\* the size the parts give a storage kind: the first part of that kind decides
ExpectedSize(ps, kind) ==
    IF \A i \in 1..Len(ps) : ps[i].kind # kind THEN Num(0, 0)
    ELSE LET i == CHOOSE i \in 1..Len(ps) :
                      ps[i].kind = kind /\ \A j \in 1..(i - 1) : ps[j].kind # kind
         IN  IF ps[i].unit = tok_TB
             THEN Num(MemNumberValue(ps[i].num).m * 1000, 0)
             ELSE MemNumberValue(ps[i].num)

MemoryCalled == rule \in {"process_memory", "ME_process_memory"}

\* C6: process_memory gives each storage kind the size of the first "+"-part
\* naming it, the first decimal number of that part, times 1000 when the part
\* says TB, and 0 when no part names the kind; "256GB SSD +  1TB HDD" gives
\* SSD=256, HDD=1000 and "512GB SSD" gives SSD=512, HDD=0.
C6_MemoryDecomposition ==
    MemoryCalled =>
        /\ rule_out.exc = ""
        /\ \A i \in 1..NRows(rule_in) :
             LET mem == rule_in.rows[i]["Memory"].s
                 row == rule_out.ret.rows[i]
             IN  /\ sample.mem # <<>> =>
                        /\ mem = RenderMemory(sample.mem)
                        /\ row["SSD"] = ExpectedSize(sample.mem, tok_SSD)
                        /\ row["HDD"] = ExpectedSize(sample.mem, tok_HDD)
                 /\ mem = <<"2", "5", "6", "G", "B", " ", "S", "S", "D", " ", "+", " ", " ", "1", "T", "B", " ", "H", "D", "D">> =>
                        row["SSD"] = Num(256, 0) /\ row["HDD"] = Num(1000, 0)
                 /\ mem = <<"5", "1", "2", "G", "B", " ", "S", "S", "D">> =>
                        row["SSD"] = Num(512, 0) /\ row["HDD"] = Num(0, 0)

\* C6 witness: process_memory has decomposed "256GB SSD +  1TB HDD"
C6_Witness ==
    /\ MemoryCalled
    /\ rule_in.rows[1]["Memory"].s = <<"2", "5", "6", "G", "B", " ", "S", "S", "D", " ", "+", " ", " ", "1", "T", "B", " ", "H", "D", "D">>
    /\ rule_out.ret.rows[1]["SSD"] = Num(256, 0)
    /\ rule_out.ret.rows[1]["HDD"] = Num(1000, 0)

CpuLabels == {lbl_i7, lbl_i5, lbl_i3, lbl_OtherIntel, lbl_AMD}

\* the bucket of a Cpu descriptor given as its tokens
ExpectedCpu(ts) ==
    IF /\ Len(ts) >= 3
       /\ ts[1] = lbl_Intel
       /\ ts[2] = <<"C", "o", "r", "e">>
       /\ ts[3] \in {<<"i", "7">>, <<"i", "5">>, <<"i", "3">>}
    THEN lbl_Intel \o <<" ">> \o ts[2] \o <<" ">> \o ts[3]
    ELSE IF ts[1] = lbl_Intel THEN lbl_OtherIntel ELSE lbl_AMD

CpuCalled == rule \in {"process_cpu", "ME_process_cpu"}

\* C7: process_cpu keeps the label of the first three tokens when it is one of
\* Intel Core i7/i5/i3, else gives "Other Intel Processor" when the first token
\* is Intel and "AMD Processor" otherwise; the result is one of the five labels
\* and the Cpu column is dropped.
C7_CpuBucketing ==
    CpuCalled =>
        /\ rule_out.exc = ""
        /\ ~HasCol(rule_out.ret, "Cpu")
        /\ \A i \in 1..NRows(rule_in) :
             LET cpu == rule_in.rows[i]["Cpu"].s
                 got == rule_out.ret.rows[i]["cpu_name"]
             IN  /\ got.k = "str" /\ got.s \in CpuLabels
                 /\ sample.cpu # <<>> =>
                        cpu = Join(sample.cpu, <<" ">>) /\ got.s = ExpectedCpu(sample.cpu)
                 /\ cpu = <<"I", "n", "t", "e", "l", " ", "C", "o", "r", "e", " ", "i", "7", " ", "7", "7", "0", "0", "H", "Q", " ", "2", ".", "8", "G", "H", "z">> => got.s = lbl_i7
                 /\ cpu = <<"I", "n", "t", "e", "l", " ", "C", "e", "l", "e", "r", "o", "n", " ", "D", "u", "a", "l", " ", "C", "o", "r", "e", " ", "N", "3", "0", "6", "0">> => got.s = lbl_OtherIntel
                 /\ cpu = <<"A", "M", "D", " ", "A", "9", "-", "S", "e", "r", "i", "e", "s", " ", "9", "4", "2", "0">> => got.s = lbl_AMD
                 /\ cpu = <<"S", "a", "m", "s", "u", "n", "g", " ", "C", "o", "r", "t", "e", "x", " ", "A", "7", "2", "&", "A", "5", "3">> => got.s = lbl_AMD

\* C7 witness: process_cpu has kept "Intel Core i3" of a three-token descriptor
C7_Witness ==
    /\ CpuCalled
    /\ rule_in.rows[1]["Cpu"].s = lbl_i3
    /\ rule_out.ret.rows[1]["cpu_name"].s = lbl_i3
    /\ ~HasCol(rule_out.ret, "Cpu")

MacTexts == {<<"m", "a", "c", "O", "S">>,
            <<"M", "a", "c", " ", "O", "S", " ", "X">>}

WindowsTexts == {<<"W", "i", "n", "d", "o", "w", "s", " ", "1", "0">>,
                <<"W", "i", "n", "d", "o", "w", "s", " ", "1", "0", " ", "S">>,
                <<"W", "i", "n", "d", "o", "w", "s", " ", "7">>,
                <<"M", "y", " ", "W", "i", "n", "d", "o", "w", "s">>}

OsCalled == rule \in {"process_os", "ME_process_os"}

\* C8: process_os gives "mac" for exactly "macOS" or "Mac OS X", "windows" for
\* a string containing "Windows" and "other" for every other string.
C8_OsSimplification ==
    OsCalled =>
        /\ rule_out.exc = ""
        /\ \A i \in 1..NRows(rule_in) :
             LET os  == rule_in.rows[i]["OpSys"].s
                 got == rule_out.ret.rows[i]["os"]
             IN  /\ got.k = "str" /\ got.s \in {lbl_mac, lbl_windows, lbl_other}
                 /\ got.s = lbl_mac <=> os \in MacTexts
                 /\ got.s = lbl_windows <=> os \in WindowsTexts
                 /\ (os \in OpSysTexts \ (MacTexts \cup WindowsTexts)) => got.s = lbl_other

\* C8 witness: process_os has mapped "My Windows", which only contains "Windows"
C8_Witness ==
    /\ OsCalled
    /\ rule_in.rows[1]["OpSys"].s = <<"M", "y", " ", "W", "i", "n", "d", "o", "w", "s">>
    /\ rule_out.ret.rows[1]["os"].s = lbl_windows

(* ------------------------------------------------------------------ *)
(* Claims about the data transformation run (Spec)                    *)
(* ------------------------------------------------------------------ *)

FilesUntouched == files = [object |-> NoFile, train |-> NoFile, test |-> NoFile]

\* some Ram value of the file has no "GB" in it
RamLacksUnit(csv) == \E i \in 1..Len(csv.rows) : ~Contains(tok_GB, csv.rows[i]["Ram"])

\* the Ram column is read as numbers, or a value leaves no integer without "GB"
RamUnparsable(csv) ==
    \/ \A i \in 1..Len(csv.rows) : IsFloatText(csv.rows[i]["Ram"])
    \/ \E i \in 1..Len(csv.rows) : ~IsIntText(StrRemove(csv.rows[i]["Ram"], tok_GB))

\* the run has not called clean_data on the train split yet
BeforeTrainClean == pc = "read_train" \/ (pc = "norm_train" /\ rule_i = 1)

\* the run raised in clean_data on the train split
TrainCleanRaised ==
    /\ pc = "raised" /\ rule_i = 1 /\ X_train = NoDf /\ test_df = NoDf
    /\ exc \in {"ValueError", "AttributeError"}

\* the run is past clean_data on the test split
PastTestClean ==
    \/ pc = "norm_test" /\ rule_i > 1
    \/ pc \in {"split_test", "fit", "transform", "save_object", "save_train",
               "save_test", "return", "returned"}
    \/ pc = "raised" /\ (X_test # NoDf \/ (test_df # NoDf /\ rule_i > 1))

C3_FailedRunPersistsNothing == pc = "raised" => FilesUntouched

\* the values a one-hot column takes in the train features
TrainValues(c) == {X_train.rows[j][c] : j \in 1..NRows(X_train)}

\* the test features have a value the train features lack in one-hot column c
Unseen(c) == \E i \in 1..NRows(X_test) : X_test.rows[i][c] \notin TrainValues(c)

\* the test features with the unseen values of column c replaced by a seen one
SeenInstead(c) ==
    [cols |-> X_test.cols,
     rows |-> [i \in 1..NRows(X_test) |->
                 [d \in Range(X_test.cols) |->
                    IF d = c /\ X_test.rows[i][c] \notin TrainValues(c)
                    THEN X_train.rows[1][c] ELSE X_test.rows[i][d]]]]

TestTransformed == pc \in {"save_object", "save_train", "save_test", "return", "returned"}

\* C9: a test row with a value unseen at fit time in a one-hot column is
\* transformed without error, its indicator block for that column is all zeros,
\* and its other blocks and scaled numeric columns are what they are for the
\* same row with a seen value in that column.
C9_UnseenCategoryAllZero ==
    \A c \in Range(one_hot_encoding_columns) :
        /\ (pc = "transform" /\ Unseen(c)) => Transform(preprocessor, X_test).exc = ""
        /\ (TestTransformed /\ Unseen(c)) =>
             \A i \in 1..NRows(X_test) :
               LET out  == X_test_transformed[i]
                   seen == Transform(preprocessor, SeenInstead(c)).out[i]
               IN  /\ DOMAIN out.cat[c] = TrainValues(c)
                   /\ X_test.rows[i][c] \notin TrainValues(c) =>
                          \A v \in TrainValues(c) : out.cat[c][v] = 0
                   /\ \A d \in Range(one_hot_encoding_columns) \ {c} :
                          out.cat[d] = seen.cat[d]
                   /\ out.num = seen.num /\ out.rest = seen.rest

\* C9 witness: the test record's Company "HP" was not in the train file and the
\* transformed test row has an all-zero Company block and a one in its os block
C9_Witness ==
    /\ TestTransformed
    /\ X_test.rows[1]["Company"] = Str(<<"H", "P">>)
    /\ Str(<<"H", "P">>) \notin TrainValues("Company")
    /\ \A v \in TrainValues("Company") : X_test_transformed[1].cat["Company"][v] = 0
    /\ Str(lbl_windows) \in TrainValues("os")
    /\ X_test_transformed[1].cat["os"][Str(lbl_windows)] = 1

(* ------------------------------------------------------------------ *)
(* Claims about evaluate_model (SpecEval)                             *)
(* ------------------------------------------------------------------ *)

\* C1: the response has is_model_accepted exactly when the stored score of the
\* trained model is strictly greater than the incumbent's score, taken as 0 when
\* there is no incumbent, and difference is the stored score minus that baseline
\* (0.85 against 0.80 is accepted).
C1_AcceptanceRule ==
    result # <<>> =>
        LET r        == result[1]
            baseline == IF best_model THEN best_model_r2_score[1] ELSE 0
        IN  /\ r.is_model_accepted <=> (trained_model_r2_score > baseline)
            /\ r.difference = trained_model_r2_score - baseline
            /\ ~best_model => (r.is_model_accepted <=> trained_model_r2_score > 0)
            /\ (best_model /\ trained_model_r2_score = 85 /\ baseline = 80) =>
                   r.is_model_accepted /\ r.difference = 5

\* C1 witness: a response that rejects a trained model scoring what the incumbent scores
C1_Witness ==
    /\ result # <<>> /\ best_model
    /\ best_model_r2_score = <<trained_model_r2_score>>
    /\ ~result[1].is_model_accepted /\ result[1].difference = 0

\* evaluate_model has normalized its features
EvalNormalized ==
    \/ e_pc \in {"load_trained", "get_best", "score_best", "respond", "returned"}
    \/ e_pc = "raised" /\ e_exc \in {"FileNotFoundError", "MyException"}

\* C4 as stated: the features of the test split in the training run, the
\* features evaluate_model derives from the same file and the single-record
\* prediction frame have the same columns in the same order.
C4_SameColumnsSameOrder ==
    EvalNormalized =>
        /\ DT_features(test_csv).exc = "" => x.cols = DT_features(test_csv).ret.cols
        /\ x.cols = LaptopColumns

\* C5 as stated: for the same raw test table the training path and
\* evaluate_model give equal values for every feature and drop the same
\* identifier/index columns.
C5_SameNormalization ==
    EvalNormalized =>
        LET t == DT_features(test_csv)
        IN  /\ t.exc = ""
            /\ Range(t.ret.cols) = Range(x.cols)
            /\ \A i \in 1..NRows(x) : \A c \in Range(x.cols) :
                   t.ret.rows[i][c] = x.rows[i][c]

(* ------------------------------------------------------------------ *)
(* Claims about the serving endpoint (SpecServe)                      *)
(* ------------------------------------------------------------------ *)

\* the form has a numeric field that is missing or does not parse
BadForm ==
    \/ \E f \in {"Ram", "Touchscreen", "IPS", "SSD", "HDD"} :
           request[f] = <<>> \/ ~IsIntText(request[f][1])
    \/ request["Weight"] = <<>> \/ ~IsFloatText(request["Weight"][1])

IsErrorResponse(r) == StartsAt(r, txt_Error, 1)

IsPriceResponse(r) == StartsAt(r, txt_PredictedPrice, 1)

\* C10: predictRouteClient never crashes: an error raised while parsing the form,
\* building the record or predicting is caught and rendered as an error message,
\* and the request ends in exactly one response, a formatted price or an error.
C10_ServingNeverCrashes ==
    /\ s_pc # "crashed"
    /\ Len(responses) <= 1
    /\ s_pc \notin {"idle", "done"} => ENABLED NextServe
    /\ s_pc = "done" =>
         /\ Len(responses) = 1
         /\ IF s_exc # "" \/ BadForm
            THEN responses[1] = txt_Error \o <<s_exc>> /\ s_exc # ""
            ELSE IsPriceResponse(responses[1]) /\ ~IsErrorResponse(responses[1])

\* C10 witness: a form with a missing Ram field was answered by one error response
C10_Witness ==
    /\ s_pc = "done"
    /\ request["Ram"] = <<>>
    /\ s_exc = "TypeError"
    /\ Len(responses) = 1 /\ IsErrorResponse(responses[1])

(* ------------------------------------------------------------------ *)
(* C11: the order of the normalization rules at every call site        *)
(* ------------------------------------------------------------------ *)

\* the order the rules are said to have: unit stripping, screen, memory, CPU,
\* GPU, OS, column pruning
FixedOrder == <<"clean_data", "process_screen_resolution", "process_memory",
                "process_cpu", "process_gpu", "process_os", "drop_id_column">>

\* the table a rule call with outcome r leaves in the variable it was assigned to
AfterRule(r) == IF r.exc # "" THEN r.arg ELSE r.ret

\* C11: every normalization step of evaluate_model calls the rule that stands at
\* that position of the fixed order (unit stripping, screen, memory, CPU, GPU,
\* OS, column pruning), the order initiate_data_transformation uses on both splits.
C11_EvalFixedOrder ==
    [][e_pc = "normalize" =>
         x' = AfterRule(ME_ApplyRule(FixedOrder[e_rule_i], x))]_vars

\* the train and the test split of initiate_data_transformation follow the fixed order
C11_TrainFixedOrder ==
    [][/\ pc = "norm_train" => train_df' = AfterRule(ApplyRule(FixedOrder[rule_i], train_df))
       /\ pc = "norm_test" => test_df' = AfterRule(ApplyRule(FixedOrder[rule_i], test_df))]_vars

(* ------------------------------------------------------------------ *)
(* C12: the transformer is fitted once, on the train features          *)
(* ------------------------------------------------------------------ *)

\* the values of column c in the train features, in row order
TrainColumn(c) == [i \in 1..NRows(X_train) |-> X_train.rows[i][c]]

\* the row the transformer must give for record r of a table when its numeric
\* statistics, its categories and its passed-through columns are those of the
\* train features
ByTrainStatistics(r) ==
    [num |-> [c \in Range(num_columns) |-> ScalerTransform(ScalerFit(TrainColumn(c)), r[c])],
     cat |-> [c \in Range(one_hot_encoding_columns) |->
                [v \in Range(TrainColumn(c)) |-> IF v = r[c] THEN 1 ELSE 0]],
     rest |-> LET other == SelectSeq(X_train.cols,
                               LAMBDA c : c \notin Range(num_columns)
                                                   \cup Range(one_hot_encoding_columns))
              IN  [j \in 1..Len(other) |-> r[other[j]]]]

\* the fitted state is the mean/scale and the vocabulary of the train features
FittedOnTrain(t) ==
    /\ t.fitted
    /\ \A c \in Range(num_columns) : t.stats[c] = ScalerFit(TrainColumn(c))
    /\ \A c \in Range(one_hot_encoding_columns) : t.categories[c] = Range(TrainColumn(c))

\* the fitted state changes in the fit step only, and from the unfitted state
FitStepOnly ==
    preprocessor' # preprocessor =>
        /\ pc = "fit" /\ ~preprocessor.fitted
        /\ X_test_transformed = <<>> /\ X_test_transformed' = <<>>

\* C12: in a training run the transformer is fitted exactly once, on the train
\* features only and before the test features are transformed; transforming the
\* test features leaves the fitted state (numeric mean/scale, categorical
\* vocabulary) as it was, so the persisted transformer and both output matrices
\* depend on train-set statistics only.
C12_FittedOnceOnTrain ==
    /\ [](/\ preprocessor.fitted => FittedOnTrain(preprocessor)
          /\ X_train_transformed # <<>> =>
               /\ preprocessor.fitted
               /\ X_train_transformed = [i \in 1..NRows(X_train) |-> ByTrainStatistics(X_train.rows[i])]
          /\ X_test_transformed # <<>> =>
               /\ preprocessor.fitted
               /\ X_test_transformed = [i \in 1..NRows(X_test) |-> ByTrainStatistics(X_test.rows[i])]
          /\ files.object.exists =>
               /\ files.object.content = preprocessor
               /\ FittedOnTrain(files.object.content))
    /\ [][FitStepOnly]_vars

\* C12 witness: a run has returned and saved its transformer; its train records
\* differ in Ram, and its test record has a Company no train record has, so a
\* fit on the test features would have given another mean, scale and vocabulary
C12_Witness ==
    /\ pc = "returned"
    /\ files.object.exists /\ files.test.exists
    /\ \E i, j \in 1..NRows(X_train) : X_train.rows[i]["Ram"] # X_train.rows[j]["Ram"]
    /\ \A i \in 1..NRows(X_train) : X_train.rows[i]["Company"] # X_test.rows[1]["Company"]
    /\ Fit(get_data_transformer_object, X_test).t # preprocessor

(* ------------------------------------------------------------------ *)
(* C13: the incumbent's score as the response reports it               *)
(* ------------------------------------------------------------------ *)

\* C13: without an incumbent model the response of evaluate_model reports
\* best_model_r2_score as absent (None) while is_model_accepted and difference
\* are computed against 0; with an incumbent the reported best_model_r2_score is
\* the incumbent's score, the very value the comparison used.
C13_ReportedBestScore ==
    result # <<>> =>
        LET r == result[1]
        IN  /\ ~best_model =>
                 /\ r.best_model_r2_score = <<>>
                 /\ r.difference = r.trained_model_r2_score - 0
                 /\ r.is_model_accepted <=> (r.trained_model_r2_score > 0)
            /\ best_model =>
                 /\ r.best_model_r2_score = best_model_r2_score
                 /\ Len(r.best_model_r2_score) = 1
                 /\ r.difference = r.trained_model_r2_score - r.best_model_r2_score[1]
                 /\ r.is_model_accepted <=>
                        (r.trained_model_r2_score > r.best_model_r2_score[1])

\* C13 witness: a response without incumbent for a trained model that scores
\* below 0: the score is reported as absent and the model is rejected against 0
C13_Witness ==
    /\ result # <<>> /\ ~best_model
    /\ result[1].best_model_r2_score = <<>>
    /\ result[1].trained_model_r2_score = -20
    /\ ~result[1].is_model_accepted /\ result[1].difference = -20

(* ------------------------------------------------------------------ *)
(* C14: what a rule does to the table passed to it                     *)
(* ------------------------------------------------------------------ *)

\* the rule called name, called on table df
CallAgain(name, df) ==
    CASE name = "clean_data" -> clean_data(df)
      [] name = "process_screen_resolution" -> process_screen_resolution(df)
      [] name = "process_memory" -> process_memory(df)
      [] name = "process_cpu" -> process_cpu(df)
      [] name = "process_gpu" -> process_gpu(df)
      [] name = "process_os" -> process_os(df)
      [] name = "drop_id_column" -> drop_id_column(df)
      [] name = "ME_clean_data" -> ME_clean_data(df)
      [] name = "ME_process_screen_resolution" -> ME_process_screen_resolution(df)
      [] name = "ME_process_memory" -> ME_process_memory(df)
      [] name = "ME_process_cpu" -> ME_process_cpu(df)
      [] name = "ME_process_gpu" -> ME_process_gpu(df)
      [] name = "ME_process_os" -> ME_process_os(df)
      [] name = "ME_drop_id_column" -> ME_drop_id_column(df)

\* C14: a normalization rule has no side effect: a call that returned has left
\* the table passed to it as it was, and the same rule called again on that same
\* table succeeds and returns the same result.
C14_RulesHaveNoSideEffects ==
    (rule # "" /\ rule_out.exc = "") =>
        /\ rule_out.arg = rule_in
        /\ CallAgain(rule, rule_out.arg).exc = ""
        /\ CallAgain(rule, rule_out.arg).ret = rule_out.ret

====
